---------------------------- MODULE Spec2Model ----------------------------
(***************************************************************************)
(* Model of the coin-indexer ingestion engine (package indexer, kept in    *)
(* src/internal/models/models.go lines 57-319, with the gorm models of     *)
(* lines 1-56).                                                            *)
(*                                                                         *)
(* One monitor goroutine per configured contract polls the chain, splits   *)
(* the unprocessed block range into batches, decodes the Transfer logs of  *)
(* each batch, inserts them into the transactions table and then stores    *)
(* the batch's last block in the block_progresses table.                   *)
(*                                                                         *)
(* Start blocks on the stop channel while the monitors run; Stop closes    *)
(* the channel. The server's POST /contracts handler                       *)
(* (src/internal/server/server.go) writes the contracts table from its     *)
(* own process.                                                            *)
(*                                                                         *)
(* Every external call (database statement, RPC) is one step of the        *)
(* monitor that issues it; the computation between two calls belongs to    *)
(* the step of the call that follows it.                                   *)
(*                                                                         *)
(* The gorm columns ID, CreatedAt and UpdatedAt are assigned by the        *)
(* database driver and are not modelled; hashes and addresses are          *)
(* abstract values, and Hex() is modelled as the injection it is.          *)
(***************************************************************************)
EXTENDS Integers, Sequences, FiniteSets

\* Highest block the modelled chain grows to.
MaxHeight == 3
\* Largest configured indexing.batch_size.
MaxBatch == 2

VARIABLES
    chainHeight,    \* the node's latest block number
    chainLogs,      \* every log the chain holds (blocks 1..chainHeight)
    contracts,      \* Indexer.contracts, loaded once from the configuration
    batchSize,      \* viper "indexing.batch_size"
    transactions,   \* table of models.Transaction rows
    blockProgress,  \* table of models.BlockProgress rows
    pc,             \* per monitor: where its goroutine stands
    lastBlock,      \* per monitor: processContractEvents' lastBlock
    currentBlock,   \* per monitor: processContractEvents' currentBlock
    fromBlock,      \* per monitor: loop variable fromBlock
    toBlock,        \* per monitor: toBlock of the batch in progress
    logs,           \* per monitor: logs of the batch still to be processed
    err,            \* per monitor: the error processContractEvents returned
    fetched,        \* per monitor: ranges FilterLogs was asked for in this tick
    callFailed,     \* per monitor: a call of this tick has failed (an RPC
                    \* error, or a database error other than a rejection
                    \* by a unique index)
    stopChan,       \* Indexer.stopChan: "open" or "closed"
    mainPc,         \* where the goroutine that called Start stands
    contractRows    \* table of models.Contract rows (written by the server)

vars == <<chainHeight, chainLogs, contracts, batchSize, transactions,
          blockProgress, pc, lastBlock, currentBlock, fromBlock, toBlock,
          logs, err, fetched, callFailed, stopChan, mainPc, contractRows>>

chainVars == <<chainHeight, chainLogs>>
configVars == <<contracts, batchSize>>
storeVars == <<transactions, blockProgress>>
outerVars == <<stopChan, mainPc, contractRows>>

Max(a, b) == IF a >= b THEN a ELSE b

-----------------------------------------------------------------------------
(* The chain *)

\* A Transfer log as FilterLogs returns it (types.Log): the number of topics
\* and the length of the data are what processTransferEvent inspects.
Log(b, t, i, a, nt, dl) ==
    [BlockNumber |-> b, TxHash |-> <<b, t>>, Index |-> i, Address |-> a,
     Topics |-> nt, DataLen |-> dl]

\* The logs of block b when it carries transfers: blocks take turns in
\* holding one transaction that moves token A and token B, two transfers of
\* token A in one transaction, and a log that does not decode followed by a
\* transfer.
TransfersOf(b) ==
    CASE b % 3 = 1 -> { Log(b, 1, 0, "A", 3, 32), Log(b, 1, 1, "B", 3, 32) }
      [] b % 3 = 2 -> { Log(b, 1, 0, "A", 3, 32), Log(b, 1, 1, "A", 3, 32) }
      [] OTHER     -> { Log(b, 1, 0, "A", 2, 32), Log(b, 2, 1, "A", 3, 32) }

\* The contents a new block b may have.
BlockShapes(b) == { {}, TransfersOf(b) }

\* Timestamp of block b (block.Time()).
BlockTime(b) == 1000 + b


RECURSIVE SortLogs(_)
\* FilterLogs returns logs in chain order: by block, then by log index.
SortLogs(S) ==
    IF S = {} THEN <<>>
    ELSE LET first == CHOOSE l \in S : \A k \in S :
                          \/ l.BlockNumber < k.BlockNumber
                          \/ /\ l.BlockNumber = k.BlockNumber
                             /\ l.Index <= k.Index
         IN  <<first>> \o SortLogs(S \ {first})

\* Result of client.FilterLogs for one address and the range [from, to].
FilterResult(address, from, to) ==
    SortLogs({l \in chainLogs : /\ l.Address = address
                                /\ l.BlockNumber >= from
                                /\ l.BlockNumber <= to})

-----------------------------------------------------------------------------
(* Configuration *)

ContractConfig(name, address, start) ==
    [Name |-> name, Address |-> address, StartBlock |-> start]

\* The start_block values of the configurations considered; 0 is what a
\* missing start_block yields.
StartBlocks == {0, 1}

\* The contract lists a configuration file may hold.
ContractLists == { <<ContractConfig("TokenA", "A", s)>> : s \in StartBlocks }

\* The configured batch sizes considered; 0 is what viper.GetInt yields
\* when the configuration has no indexing.batch_size key.
BatchSizes == 0..MaxBatch

Monitors == DOMAIN contracts

\* The history of the ranges FilterLogs was asked for keeps the first
\* MaxHeight + 1 ranges of a tick; a tick asks for more only when the batch
\* size is 0 and the loop never advances.
RecordFetch(history, from, to) ==
    IF Len(history) <= MaxHeight
    THEN Append(history, <<from, to>>)
    ELSE history

-----------------------------------------------------------------------------
(* Database statements *)

\* db.Where("contract = ?", address).First(&progress): LastBlock of the row,
\* or the zero value getLastProcessedBlock returns when First reports an error.
DbFirst(table, address) ==
    IF \E row \in table : row.Contract = address
    THEN (CHOOSE row \in table : row.Contract = address).LastBlock
    ELSE 0

\* The primary key an INSERT gives a row whose ID is the zero value. Rows
\* are never deleted, so the next key is the number of rows plus one.
NextID(table) == Cardinality(table) + 1

\* DbSave as an upsert on the contract column (last write wins).
DbSaveUpsert(table, progress) ==
    IF \E row \in table : row.Contract = progress.Contract
    THEN {IF row.Contract = progress.Contract
          THEN [row EXCEPT !.LastBlock = progress.LastBlock]
          ELSE row : row \in table}
    ELSE table \cup {[progress EXCEPT !.ID = Cardinality(table) + 1]}

\* db.Save(&progress) with progress.ID = 0: the primary key is the zero value,
\* so gorm runs Create, a plain INSERT; the unique index on the contract
\* column rejects it when the address already has a row.
DbSave(table, progress) ==
    IF \E row \in table : row.Contract = progress.Contract
    THEN table
    ELSE table \cup {[progress EXCEPT !.ID = NextID(table)]}

\* DbCreate on a table without the unique index on tx_hash.
DbCreateNoIndex(table, tx) == table \cup {[tx EXCEPT !.ID = Cardinality(table) + 1]}

\* DbCreate as an upsert on tx_hash: the stored row takes the new values.
DbCreateOverwrite(table, tx) ==
    IF \E row \in table : row.TxHash = tx.TxHash
    THEN {IF row.TxHash = tx.TxHash THEN [tx EXCEPT !.ID = row.ID] ELSE row :
          row \in table}
    ELSE table \cup {[tx EXCEPT !.ID = Cardinality(table) + 1]}

\* db.Create(tx): INSERT; the unique index on tx_hash rejects a second row
\* with the same TxHash.
DbCreate(table, tx) ==
    IF \E row \in table : row.TxHash = tx.TxHash
    THEN table
    ELSE table \cup {[tx EXCEPT !.ID = NextID(table)]}

-----------------------------------------------------------------------------
(* processContractEvents' arithmetic *)

\* if lastBlock < config.StartBlock { lastBlock = config.StartBlock }
ClampToStart(last, start) == IF last < start THEN start ELSE last

\* for fromBlock := lastBlock + 1
FirstFrom(last) == last + 1

\* ChunkTo without the cut to currentBlock.
ChunkToUncut(from, current, size) == from + size - 1

\* toBlock := fromBlock + batchSize - 1, cut to currentBlock
ChunkTo(from, current, size) ==
    IF from + size - 1 > current THEN current ELSE from + size - 1

\* fromBlock += batchSize
NextFrom(from, size) == from + size

-----------------------------------------------------------------------------
(* processTransferEvent *)

\* len(vLog.Topics) < 3 || len(vLog.Data) < 32 is a decode failure
Decodable(vLog) == ~(vLog.Topics < 3 \/ vLog.DataLen < 32)

\* The models.Transaction built from a log and its block's timestamp.
NewTransaction(config, vLog) ==
    [ID              |-> 0,
     TxHash          |-> vLog.TxHash,
     BlockNumber     |-> vLog.BlockNumber,
     LogIndex        |-> vLog.Index,
     ContractAddress |-> config.Address,
     TokenName       |-> config.Name,
     BlockTimestamp  |-> BlockTime(vLog.BlockNumber)]

\* NewProgress with one row for all contracts.
NewProgressShared(address, blockNumber) ==
    [ID |-> 0, Contract |-> "A", LastBlock |-> blockNumber]

\* The models.BlockProgress updateLastProcessedBlock builds.
NewProgress(address, blockNumber) ==
    [ID |-> 0, Contract |-> address, LastBlock |-> blockNumber]

-----------------------------------------------------------------------------
(* Initial state *)

Locals0(ms) == [m \in ms |-> 0]

Init ==
    /\ chainHeight = 0
    /\ chainLogs = {}
    /\ contracts \in ContractLists
    /\ batchSize \in BatchSizes
    /\ transactions = {}
    /\ blockProgress = {}
    /\ pc = [m \in Monitors |-> "select"]
    /\ lastBlock = Locals0(Monitors)
    /\ currentBlock = Locals0(Monitors)
    /\ fromBlock = Locals0(Monitors)
    /\ toBlock = Locals0(Monitors)
    /\ logs = [m \in Monitors |-> <<>>]
    /\ err = [m \in Monitors |-> "nil"]
    /\ fetched = [m \in Monitors |-> <<>>]
    /\ callFailed = [m \in Monitors |-> FALSE]
    /\ stopChan = "open"
    /\ mainPc = "wait"
    /\ contractRows = {}

-----------------------------------------------------------------------------
(* The chain grows *)

ChainAdvance ==
    /\ chainHeight < MaxHeight
    /\ chainHeight' = chainHeight + 1
    /\ \E shape \in BlockShapes(chainHeight + 1) :
           chainLogs' = chainLogs \cup shape
    /\ UNCHANGED <<configVars, outerVars, storeVars, pc, lastBlock, currentBlock,
                   fromBlock, toBlock, logs, err, fetched,
                   callFailed>>

-----------------------------------------------------------------------------
(* monitorContract *)

\* case <-ticker.C: the monitor enters processContractEvents
Tick(m) ==
    /\ pc[m] = "select"
    /\ pc' = [pc EXCEPT ![m] = "read"]
    /\ UNCHANGED <<chainVars, configVars, outerVars, storeVars, lastBlock, currentBlock,
                   fromBlock, toBlock, logs, err, fetched,
                   callFailed>>

\* getLastProcessedBlock, then the clamp to StartBlock. A failed query
\* returns 0 like a missing row.
GetLastProcessedBlock(m) ==
    /\ pc[m] = "read"
    /\ \E failed \in BOOLEAN :
           /\ lastBlock' = [lastBlock EXCEPT ![m] =
                  ClampToStart(IF failed THEN 0
                               ELSE DbFirst(blockProgress, contracts[m].Address),
                               contracts[m].StartBlock)]
           /\ callFailed' = [callFailed EXCEPT ![m] = failed]
    /\ pc' = [pc EXCEPT ![m] = "height"]
    /\ UNCHANGED <<chainVars, configVars, outerVars, storeVars, currentBlock, fromBlock,
                   toBlock, logs, err, fetched>>

\* client.BlockNumber succeeds; the skip test and the loop's first iteration
BlockNumber(m) ==
    /\ pc[m] = "height"
    /\ currentBlock' = [currentBlock EXCEPT ![m] = chainHeight]
    /\ IF lastBlock[m] >= chainHeight
       THEN /\ pc' = [pc EXCEPT ![m] = "ret"]
            /\ err' = [err EXCEPT ![m] = "nil"]
            /\ UNCHANGED <<fromBlock, toBlock>>
       ELSE /\ fromBlock' = [fromBlock EXCEPT ![m] = FirstFrom(lastBlock[m])]
            /\ toBlock' = [toBlock EXCEPT ![m] =
                   ChunkTo(FirstFrom(lastBlock[m]), chainHeight, batchSize)]
            /\ pc' = [pc EXCEPT ![m] = "fetch"]
            /\ UNCHANGED err
    /\ UNCHANGED <<chainVars, configVars, outerVars, storeVars, lastBlock, logs, fetched,
                   callFailed>>

\* client.BlockNumber fails: processContractEvents returns the error
BlockNumberFails(m) ==
    /\ pc[m] = "height"
    /\ err' = [err EXCEPT ![m] = "height"]
    /\ pc' = [pc EXCEPT ![m] = "ret"]
    /\ UNCHANGED <<chainVars, configVars, outerVars, storeVars, lastBlock, currentBlock,
                   fromBlock, toBlock, logs, fetched>>
    /\ callFailed' = [callFailed EXCEPT ![m] = TRUE]

\* processBlockRange: client.FilterLogs succeeds
FilterLogs(m) ==
    /\ pc[m] = "fetch"
    /\ LET result == FilterResult(contracts[m].Address, fromBlock[m], toBlock[m])
       IN  /\ logs' = [logs EXCEPT ![m] = result]
           /\ pc' = [pc EXCEPT ![m] = IF result = <<>> THEN "save" ELSE "event"]
    /\ fetched' = [fetched EXCEPT ![m] = RecordFetch(@, fromBlock[m], toBlock[m])]
    /\ UNCHANGED <<chainVars, configVars, outerVars, storeVars, lastBlock, currentBlock,
                   fromBlock, toBlock, err,
                   callFailed>>

\* processBlockRange: client.FilterLogs fails, the tick ends with the error
FilterLogsFails(m) ==
    /\ pc[m] = "fetch"
    /\ fetched' = [fetched EXCEPT ![m] = RecordFetch(@, fromBlock[m], toBlock[m])]
    /\ err' = [err EXCEPT ![m] = "filter"]
    /\ pc' = [pc EXCEPT ![m] = "ret"]
    /\ UNCHANGED <<chainVars, configVars, outerVars, storeVars, lastBlock, currentBlock,
                   fromBlock, toBlock, logs>>
    /\ callFailed' = [callFailed EXCEPT ![m] = TRUE]

\* The loop over logs goes on with the next log, or processBlockRange returns nil.
AfterEvent(m) ==
    /\ logs' = [logs EXCEPT ![m] = Tail(@)]
    /\ pc' = [pc EXCEPT ![m] = IF Tail(logs[m]) = <<>> THEN "save" ELSE "event"]

\* processTransferEvent up to client.BlockByNumber: a log that does not decode
\* returns an error before the call; the caller logs it and continues.
DecodeFails(m) ==
    /\ pc[m] = "event"
    /\ ~Decodable(Head(logs[m]))
    /\ AfterEvent(m)
    /\ UNCHANGED <<chainVars, configVars, outerVars, storeVars, lastBlock, currentBlock,
                   fromBlock, toBlock, err, fetched,
                   callFailed>>

\* client.BlockByNumber succeeds
BlockByNumber(m) ==
    /\ pc[m] = "event"
    /\ Decodable(Head(logs[m]))
    /\ pc' = [pc EXCEPT ![m] = "insert"]
    /\ UNCHANGED <<chainVars, configVars, outerVars, storeVars, lastBlock, currentBlock,
                   fromBlock, toBlock, logs, err, fetched,
                   callFailed>>

\* client.BlockByNumber fails: the error is logged, the loop continues
BlockByNumberFails(m) ==
    /\ pc[m] = "event"
    /\ Decodable(Head(logs[m]))
    /\ AfterEvent(m)
    /\ UNCHANGED <<chainVars, configVars, outerVars, storeVars, lastBlock, currentBlock,
                   fromBlock, toBlock, err, fetched>>
    /\ callFailed' = [callFailed EXCEPT ![m] = TRUE]

\* db.Create(tx) is executed: the row is inserted, or the unique index
\* rejects it; a rejection is logged and the loop continues.
Create(m) ==
    /\ pc[m] = "insert"
    /\ transactions' = DbCreate(transactions,
                                NewTransaction(contracts[m], Head(logs[m])))
    /\ AfterEvent(m)
    /\ UNCHANGED <<chainVars, configVars, outerVars, blockProgress, lastBlock,
                   currentBlock, fromBlock, toBlock, err, fetched,
                   callFailed>>

\* db.Create(tx) fails (connection lost, disk full): logged, loop continues
CreateFails(m) ==
    /\ pc[m] = "insert"
    /\ AfterEvent(m)
    /\ UNCHANGED <<chainVars, configVars, outerVars, storeVars, lastBlock, currentBlock,
                   fromBlock, toBlock, err, fetched>>
    /\ callFailed' = [callFailed EXCEPT ![m] = TRUE]

\* updateLastProcessedBlock(config.Address, toBlock); the result of db.Save
\* is discarded.
UpdateLastProcessedBlock(m) ==
    /\ pc[m] = "save"
    /\ blockProgress' = DbSave(blockProgress,
                               NewProgress(contracts[m].Address, toBlock[m]))
    /\ pc' = [pc EXCEPT ![m] = "next"]
    /\ UNCHANGED <<chainVars, configVars, outerVars, transactions, lastBlock,
                   currentBlock, fromBlock, toBlock, logs, err, fetched,
                   callFailed>>

\* db.Save fails for a reason of the database's; nobody notices
UpdateFails(m) ==
    /\ pc[m] = "save"
    /\ pc' = [pc EXCEPT ![m] = "next"]
    /\ UNCHANGED <<chainVars, configVars, outerVars, storeVars, lastBlock, currentBlock,
                   fromBlock, toBlock, logs, err, fetched>>
    /\ callFailed' = [callFailed EXCEPT ![m] = TRUE]

\* fromBlock += batchSize and the loop test: the next batch, or return nil
NextBatch(m) ==
    /\ pc[m] = "next"
    /\ fromBlock' = [fromBlock EXCEPT ![m] = NextFrom(@, batchSize)]
    /\ IF NextFrom(fromBlock[m], batchSize) <= currentBlock[m]
       THEN /\ toBlock' = [toBlock EXCEPT ![m] =
                   ChunkTo(NextFrom(fromBlock[m], batchSize),
                           currentBlock[m], batchSize)]
            /\ pc' = [pc EXCEPT ![m] = "fetch"]
            /\ UNCHANGED err
       ELSE /\ err' = [err EXCEPT ![m] = "nil"]
            /\ pc' = [pc EXCEPT ![m] = "ret"]
            /\ UNCHANGED toBlock
    /\ UNCHANGED <<chainVars, configVars, outerVars, storeVars, lastBlock, currentBlock,
                   logs, fetched,
                   callFailed>>

\* processContractEvents has returned: the error, if any, is logged and the
\* monitor waits in its select again.
Return(m) ==
    /\ pc[m] = "ret"
    /\ pc' = [pc EXCEPT ![m] = "select"]
    /\ lastBlock' = [lastBlock EXCEPT ![m] = 0]
    /\ currentBlock' = [currentBlock EXCEPT ![m] = 0]
    /\ fromBlock' = [fromBlock EXCEPT ![m] = 0]
    /\ toBlock' = [toBlock EXCEPT ![m] = 0]
    /\ logs' = [logs EXCEPT ![m] = <<>>]
    /\ err' = [err EXCEPT ![m] = "nil"]
    /\ fetched' = [fetched EXCEPT ![m] = <<>>]
    /\ callFailed' = [callFailed EXCEPT ![m] = FALSE]
    /\ UNCHANGED <<chainVars, configVars, outerVars, storeVars>>

\* The process is killed and started again: the tables stay, every
\* goroutine starts over.
Restart ==
    /\ \/ \E m \in Monitors : pc[m] # "select"
       \/ stopChan # "open"
    /\ pc' = [m \in Monitors |-> "select"]
    /\ lastBlock' = Locals0(Monitors)
    /\ currentBlock' = Locals0(Monitors)
    /\ fromBlock' = Locals0(Monitors)
    /\ toBlock' = Locals0(Monitors)
    /\ logs' = [m \in Monitors |-> <<>>]
    /\ err' = [m \in Monitors |-> "nil"]
    /\ fetched' = [m \in Monitors |-> <<>>]
    /\ callFailed' = [m \in Monitors |-> FALSE]
    /\ stopChan' = "open"
    /\ mainPc' = "wait"
    /\ UNCHANGED <<chainVars, configVars, storeVars, contractRows>>

MonitorNext ==
    \/ Restart
    \/ \E m \in Monitors : Tick(m)
    \/ \E m \in Monitors : GetLastProcessedBlock(m)
    \/ \E m \in Monitors : BlockNumber(m)
    \/ \E m \in Monitors : BlockNumberFails(m)
    \/ \E m \in Monitors : FilterLogs(m)
    \/ \E m \in Monitors : FilterLogsFails(m)
    \/ \E m \in Monitors : DecodeFails(m)
    \/ \E m \in Monitors : BlockByNumber(m)
    \/ \E m \in Monitors : BlockByNumberFails(m)
    \/ \E m \in Monitors : Create(m)
    \/ \E m \in Monitors : CreateFails(m)
    \/ \E m \in Monitors : UpdateLastProcessedBlock(m)
    \/ \E m \in Monitors : UpdateFails(m)
    \/ \E m \in Monitors : NextBatch(m)
    \/ \E m \in Monitors : Return(m)

\* The scenario of the design's test list: StartBlock 100, chain height 250,
\* batch size 50, nothing stored yet.
InitScenario ==
    /\ chainHeight = 250
    /\ chainLogs = TransfersOf(100) \cup TransfersOf(150) \cup TransfersOf(250)
    /\ contracts = <<ContractConfig("TokenA", "A", 100)>>
    /\ batchSize = 50
    /\ transactions = {}
    /\ blockProgress = {}
    /\ pc = [m \in Monitors |-> "select"]
    /\ lastBlock = Locals0(Monitors)
    /\ currentBlock = Locals0(Monitors)
    /\ fromBlock = Locals0(Monitors)
    /\ toBlock = Locals0(Monitors)
    /\ logs = [m \in Monitors |-> <<>>]
    /\ err = [m \in Monitors |-> "nil"]
    /\ fetched = [m \in Monitors |-> <<>>]
    /\ callFailed = [m \in Monitors |-> FALSE]
    /\ stopChan = "open"
    /\ mainPc = "wait"
    /\ contractRows = {}

Next ==
    \/ ChainAdvance
    \/ MonitorNext

Spec == Init /\ [][Next]_vars

-----------------------------------------------------------------------------
(* Start, Stop and the stop channel *)

\* A goroutine panics: the Go runtime ends the process, and every goroutine
\* with it, wherever it stands. mainPc tells whether it was Start's
\* goroutine that panicked or another one.
Panic(inStart) ==
    /\ mainPc' = IF inStart THEN "panic" ELSE "dead"
    /\ pc' = [m \in Monitors |-> "dead"]
    /\ lastBlock' = Locals0(Monitors)
    /\ currentBlock' = Locals0(Monitors)
    /\ fromBlock' = Locals0(Monitors)
    /\ toBlock' = Locals0(Monitors)
    /\ logs' = [m \in Monitors |-> <<>>]
    /\ err' = [m \in Monitors |-> "nil"]
    /\ fetched' = [m \in Monitors |-> <<>>]
    /\ callFailed' = [m \in Monitors |-> FALSE]
    /\ UNCHANGED <<chainVars, configVars, storeVars, stopChan, contractRows>>

\* close(i.stopChan): closing a closed channel panics.
CloseStopChan(inStart) ==
    IF stopChan = "open"
    THEN /\ stopChan' = "closed"
         /\ UNCHANGED <<chainVars, configVars, storeVars, pc, lastBlock,
                        currentBlock, fromBlock, toBlock, logs, err, fetched,
                        callFailed, mainPc, contractRows>>
    ELSE Panic(inStart)

\* Indexer.Stop, called by whoever holds the Indexer while Start runs.
Stop ==
    /\ mainPc \in {"wait", "close"}
    /\ CloseStopChan(FALSE)

\* Start: the receive <-i.stopChan returns; nothing is ever sent on the
\* channel, so it returns once the channel is closed.
StartReceives ==
    /\ mainPc = "wait"
    /\ stopChan = "closed"
    /\ mainPc' = "close"
    /\ UNCHANGED <<chainVars, configVars, storeVars, pc, lastBlock,
                   currentBlock, fromBlock, toBlock, logs, err, fetched,
                   callFailed, stopChan, contractRows>>

\* Start: close(i.stopChan) after the receive has returned.
StartCloses ==
    /\ mainPc = "close"
    /\ CloseStopChan(TRUE)

\* monitorContract, case <-i.stopChan: the monitor returns (wg.Done).
StopSignal(m) ==
    /\ pc[m] = "select"
    /\ stopChan = "closed"
    /\ pc' = [pc EXCEPT ![m] = "exited"]
    /\ UNCHANGED <<chainVars, configVars, outerVars, storeVars, lastBlock,
                   currentBlock, fromBlock, toBlock, logs, err, fetched,
                   callFailed>>

NextStop ==
    \/ Next
    \/ Stop
    \/ StartReceives
    \/ StartCloses
    \/ \E m \in Monitors : StopSignal(m)

\* The indexer with a caller of Stop.
SpecStop == Init /\ [][NextStop]_vars

\* The monitors against a chain that stands at block 250.
SpecScenario == InitScenario /\ [][MonitorNext]_vars

-----------------------------------------------------------------------------
(* Vocabulary of the properties *)

HasCheckpoint(address) == \E row \in blockProgress : row.Contract = address

\* The stored checkpoint of an address that has one.
Checkpoint(address) ==
    (CHOOSE row \in blockProgress : row.Contract = address).LastBlock

\* The Transfer Record of a log is in the Event Store.
HasRecord(l) ==
    \E t \in transactions : t.TxHash = l.TxHash /\ t.LogIndex = l.Index

\* The decodable transfer logs the chain holds for an address in [from, to].
TransfersIn(address, from, to) ==
    {l \in chainLogs : /\ l.Address = address
                       /\ Decodable(l)
                       /\ l.BlockNumber >= from
                       /\ l.BlockNumber <= to}

-----------------------------------------------------------------------------
(* C1 *)

\* C1 (as claimed): if the stored checkpoint of a contract is X, every
\* decodable transfer log of the contract in blocks StartBlock..X that the
\* chain holds has its Transfer Record in the Event Store.
C1_WatermarkSound ==
    \A m \in Monitors :
        HasCheckpoint(contracts[m].Address) =>
            \A l \in TransfersIn(contracts[m].Address, contracts[m].StartBlock,
                                 Checkpoint(contracts[m].Address)) :
                HasRecord(l)

-----------------------------------------------------------------------------
(* C2 *)

\* C2: the LastBlock stored for an address never decreases from one state
\* to the next, and a stored checkpoint never disappears.
C2_MonotonicCheckpoint ==
    [][\A row \in blockProgress :
          \E next \in blockProgress' : /\ next.Contract = row.Contract
                                       /\ next.LastBlock >= row.LastBlock]_vars

\* A monitor has just run updateLastProcessedBlock with a block below the
\* checkpoint the address already has.
C2_Witness ==
    \E m \in Monitors :
        /\ pc[m] = "next"
        /\ HasCheckpoint(contracts[m].Address)
        /\ toBlock[m] < Checkpoint(contracts[m].Address)

-----------------------------------------------------------------------------
(* C3 *)

\* C3 (as claimed): the updateLastProcessedBlock that follows a successful
\* processBlockRange leaves the stored checkpoint equal to the batch's
\* toBlock, when it creates the row and when the row exists already (no
\* call of the tick having failed).
C3_CheckpointAdvance ==
    [][\A m \in Monitors :
          (/\ pc[m] = "save"
           /\ pc'[m] = "next"
           /\ ~callFailed'[m])
          => \E row \in blockProgress' : /\ row.Contract = contracts[m].Address
                                         /\ row.LastBlock = toBlock[m]]_vars

-----------------------------------------------------------------------------
(* C4 *)

\* The last processed block the Progress Store stands for: the stored
\* checkpoint, and StartBlock - 1 for an address without one.
LastProcessed(m) ==
    IF HasCheckpoint(contracts[m].Address)
    THEN Checkpoint(contracts[m].Address)
    ELSE contracts[m].StartBlock - 1

\* C4 (as claimed): when a tick enters the batch loop, its first block is
\* max(last checkpoint + 1, StartBlock), StartBlock itself for an address
\* without checkpoint, and its last block is the chain height just read.
C4_RangeComputation ==
    [][\A m \in Monitors :
          (pc[m] = "height" /\ pc'[m] = "fetch" /\ ~callFailed[m])
          => /\ fromBlock'[m] = Max(LastProcessed(m) + 1, contracts[m].StartBlock)
             /\ currentBlock'[m] = chainHeight]_vars

-----------------------------------------------------------------------------
(* C5 *)

\* Monitor m's step is a db.Create that fails on a key the table does not hold.
InsertFailure(m) ==
    /\ pc[m] = "insert"
    /\ pc'[m] # "insert"
    /\ pc'[m] # "select"
    /\ transactions' = transactions
    /\ \A t \in transactions : t.TxHash # Head(logs[m]).TxHash

\* C5 (as claimed): a failed insert aborts the tick: processContractEvents
\* returns an error without running the checkpoint update of the batch, so
\* the checkpoint stays at the end of the batch before it.
C5_InsertFailureAborts ==
    [][\A m \in Monitors :
          InsertFailure(m) => /\ pc'[m] = "ret"
                              /\ err'[m] # "nil"
                              /\ blockProgress' = blockProgress]_vars

-----------------------------------------------------------------------------
(* C6 *)

\* Monitor m's step is a failed client.BlockNumber or client.FilterLogs.
FetchFailure(m) ==
    /\ pc[m] \in {"height", "fetch"}
    /\ pc'[m] = "ret"
    /\ err'[m] # "nil"

\* C6 (as claimed): a failed chain query ends the tick, not the monitor,
\* and writes nothing; when no other call of the tick has failed, the
\* checkpoint then stands at the end of the last batch the tick completed.
C6_FetchFailureRecovery ==
    [][\A m \in Monitors :
          FetchFailure(m)
          => /\ blockProgress' = blockProgress
             /\ (~callFailed[m] /\ Len(fetched[m]) > 0)
                => /\ HasCheckpoint(contracts[m].Address)
                   /\ Checkpoint(contracts[m].Address) = fromBlock[m] - 1]_vars

-----------------------------------------------------------------------------
(* C7 *)

CeilDiv(a, b) == (a + b - 1) \div b

\* The split of [from, to] into batches of width M the design describes:
\* ceil((to-from+1)/M) consecutive ranges, the last one ending at to.
ExpectedChunks(from, to, M) ==
    [i \in 1..CeilDiv(to - from + 1, M) |->
        <<from + (i - 1) * M,
          IF from + i * M - 1 > to THEN to ELSE from + i * M - 1>>]

IsPrefix(s, t) ==
    /\ Len(s) <= Len(t)
    /\ \A i \in 1..Len(s) : s[i] = t[i]

\* C7: with a batch size M >= 1 the ranges a tick asks FilterLogs for are
\* the first ranges of the split of [lastBlock + 1, currentBlock] into
\* ceil(width/M) consecutive, gap-free ranges of width at most M, and all
\* of them once the loop has run to its end.
C7_ChunkBoundaries ==
    \A m \in Monitors :
        (/\ pc[m] \in {"fetch", "event", "insert", "save", "next", "ret"}
         /\ batchSize >= 1
         /\ lastBlock[m] < currentBlock[m])
        => LET expected == ExpectedChunks(lastBlock[m] + 1, currentBlock[m],
                                          batchSize)
           IN  /\ IsPrefix(fetched[m], expected)
               /\ (pc[m] = "ret" /\ err[m] = "nil") => fetched[m] = expected
               /\ pc[m] = "fetch"
                  => <<fromBlock[m], toBlock[m]>> = expected[Len(fetched[m]) + 1]

\* A tick has run its loop to the end; the range had several batches and
\* the last one is narrower than the batch size.
C7_Witness ==
    \E m \in Monitors :
        /\ pc[m] = "ret"
        /\ err[m] = "nil"
        /\ Len(fetched[m]) >= 2
        /\ LET last == fetched[m][Len(fetched[m])]
           IN  /\ last[2] = currentBlock[m]
               /\ last[2] - last[1] + 1 < batchSize

-----------------------------------------------------------------------------
(* C8 *)

\* C8 (as claimed): StartBlock 100, no checkpoint, chain height 250, batch
\* size 50: a tick in which no call fails fetches [100,149], [150,199],
\* [200,249], [250,250] in this order, and when its loop has ended the
\* stored checkpoint is 250.
C8_Scenario ==
    LET chunks == << <<100, 149>>, <<150, 199>>, <<200, 249>>, <<250, 250>> >>
    IN  \A m \in Monitors :
            (/\ pc[m] \in {"fetch", "event", "insert", "save", "next", "ret"}
             /\ ~callFailed[m]
             /\ lastBlock[m] = contracts[m].StartBlock)
            => /\ IsPrefix(fetched[m], chunks)
               /\ pc[m] = "ret"
                  => /\ fetched[m] = chunks
                     /\ HasCheckpoint(contracts[m].Address)
                     /\ Checkpoint(contracts[m].Address) = 250

-----------------------------------------------------------------------------
(* C9 *)

\* Monitor m works on a batch whose decodable transfers all have their
\* record already.
InProcessedRange(m) ==
    /\ pc[m] \in {"event", "insert", "save"}
    /\ \A l \in TransfersIn(contracts[m].Address, fromBlock[m], toBlock[m]) :
           HasRecord(l)

\* Monitor m takes the step.
Moved(m) == pc'[m] # pc[m] \/ logs'[m] # logs[m]

\* C9: processing a range again whose transfers are all recorded leaves
\* the set of Transfer Records as it was, and the checkpoint update after
\* it stores at most max(existing checkpoint, end of the range).
C9_IdempotentRefetch ==
    [][\A m \in Monitors :
          (InProcessedRange(m) /\ Moved(m))
          => /\ transactions' = transactions
             /\ \A row \in blockProgress' :
                    row.Contract = contracts[m].Address
                    => row.LastBlock <=
                           IF HasCheckpoint(contracts[m].Address)
                           THEN Max(Checkpoint(contracts[m].Address), toBlock[m])
                           ELSE toBlock[m]]_vars

\* A range at or below the stored checkpoint, holding transfers that are
\* all recorded, has been run through processBlockRange again.
C9_Witness ==
    \E m \in Monitors :
        /\ pc[m] = "save"
        /\ HasCheckpoint(contracts[m].Address)
        /\ toBlock[m] <= Checkpoint(contracts[m].Address)
        /\ TransfersIn(contracts[m].Address, fromBlock[m], toBlock[m]) # {}
        /\ InProcessedRange(m)

-----------------------------------------------------------------------------
(* C10 *)

\* C10: every row of the transactions table stays in it with all its
\* fields, and no two rows ever share the unique key TxHash: an insert
\* with a stored key adds and changes nothing.
C10_WriteOnce ==
    [][/\ transactions \subseteq transactions'
       /\ \A t1, t2 \in transactions' : t1.TxHash = t2.TxHash => t1 = t2]_vars

\* A batch has been processed whose second transfer carries the TxHash of
\* its first: the first is recorded, the second is not.
C10_Witness ==
    \E m \in Monitors :
        /\ pc[m] = "save"
        /\ \E l1, l2 \in TransfersIn(contracts[m].Address, fromBlock[m],
                                     toBlock[m]) :
               /\ l1.TxHash = l2.TxHash
               /\ l1.Index < l2.Index
               /\ HasRecord(l1)
               /\ ~HasRecord(l2)

-----------------------------------------------------------------------------
(* C11 *)

\* Monitor m's db.Create for the log at hand has returned without an error
\* of the database's, and no call of the tick has failed.
Inserted(m) ==
    /\ pc[m] = "insert"
    /\ pc'[m] \in {"event", "save"}
    /\ ~callFailed'[m]

\* C11 (as claimed): a transfer log is identified by its transaction hash
\* and its log index, so every decodable log whose insert was executed has
\* its own Transfer Record, also when another log of the same transaction
\* is already recorded.
C11_RecordIdentity ==
    [][\A m \in Monitors :
          Inserted(m) =>
              \E t \in transactions' :
                  /\ t.TxHash = Head(logs[m]).TxHash
                  /\ t.LogIndex = Head(logs[m]).Index]_vars

-----------------------------------------------------------------------------
(* C12 *)

\* The logs of monitor m's batch that processTransferEvent cannot decode.
Undecodable(m) ==
    {l \in chainLogs : /\ l.Address = contracts[m].Address
                       /\ ~Decodable(l)
                       /\ l.BlockNumber >= fromBlock[m]
                       /\ l.BlockNumber <= toBlock[m]}

\* C12 (as claimed): when a batch that holds an undecodable log has been
\* processed without a failed call, the undecodable log has no record,
\* every decodable log of the batch was handed to the Event Store, and the
\* checkpoint write that follows stores the batch's last block.
C12_DecodeRobustness ==
    [][\A m \in Monitors :
          (/\ pc[m] = "save"
           /\ pc'[m] = "next"
           /\ ~callFailed'[m]
           /\ Undecodable(m) # {})
          => /\ \A l \in Undecodable(m) : ~HasRecord(l)'
             /\ \A l \in TransfersIn(contracts[m].Address, fromBlock[m],
                                     toBlock[m]) :
                    \E t \in transactions' : t.TxHash = l.TxHash
             /\ HasCheckpoint(contracts[m].Address)'
             /\ Checkpoint(contracts[m].Address)' = toBlock[m]]_vars

-----------------------------------------------------------------------------
(* C13 *)

\* C13 (as claimed): Stop followed by Start's shutdown path never ends in
\* a crash: Start's goroutine does not panic.
C13_GracefulShutdown == mainPc # "panic"

-----------------------------------------------------------------------------
(* C14 *)

\* C14 (as claimed): once the stop channel is closed, no monitor leaves
\* its select through the ticker case, so processContractEvents is not
\* entered any more.
C14_NoTickAfterStop ==
    [][\A m \in Monitors :
          stopChan = "closed" => ~(pc[m] = "select" /\ pc'[m] = "read")]_vars

-----------------------------------------------------------------------------
(* The server's registration handler, and the indexer under fair scheduling *)

\* The bodies of the POST /contracts requests considered.
Requests == { [Name |-> "TokenB", Address |-> "B", StartBlock |-> 1] }

\* The models.Contract addContractHandler builds from a request.
NewContract(req) ==
    [ID |-> 0, Name |-> req.Name, Address |-> req.Address,
     StartBlock |-> req.StartBlock, LastBlock |-> 0, IsActive |-> TRUE]

\* db.Create(&contract): an INSERT, rejected when a row holds the address
\* (unique index on Contract.Address).
DbCreateContract(table, contract) ==
    IF \E row \in table : row.Address = contract.Address
    THEN table
    ELSE table \cup {[contract EXCEPT !.ID = NextID(table)]}

\* addContractHandler: the request is bound and the row is created. The
\* handler runs in the server process and touches nothing of the indexer.
AddContract ==
    /\ \E req \in Requests :
           contractRows' = DbCreateContract(contractRows, NewContract(req))
    /\ UNCHANGED <<chainVars, configVars, storeVars, pc, lastBlock,
                   currentBlock, fromBlock, toBlock, logs, err, fetched,
                   callFailed, stopChan, mainPc>>

\* A step of monitor m in which the call it makes succeeds.
LiveStep(m) ==
    \/ Tick(m)
    \/ GetLastProcessedBlock(m) /\ ~callFailed'[m]
    \/ BlockNumber(m)
    \/ FilterLogs(m)
    \/ DecodeFails(m)
    \/ BlockByNumber(m)
    \/ Create(m)
    \/ UpdateLastProcessedBlock(m)
    \/ NextBatch(m)
    \/ Return(m)

\* The indexer and the server when every call succeeds and the process is
\* neither stopped nor killed.
NextLive ==
    \/ ChainAdvance
    \/ AddContract
    \/ \E m \in Monitors : Tick(m)
    \/ \E m \in Monitors : GetLastProcessedBlock(m) /\ ~callFailed'[m]
    \/ \E m \in Monitors : BlockNumber(m)
    \/ \E m \in Monitors : FilterLogs(m)
    \/ \E m \in Monitors : DecodeFails(m)
    \/ \E m \in Monitors : BlockByNumber(m)
    \/ \E m \in Monitors : Create(m)
    \/ \E m \in Monitors : UpdateLastProcessedBlock(m)
    \/ \E m \in Monitors : NextBatch(m)
    \/ \E m \in Monitors : Return(m)

\* The Go scheduler runs every runnable goroutine, and the ticker of a
\* monitor keeps firing: a monitor that can take a step takes one.
Fairness == WF_vars(\E m \in Monitors : LiveStep(m))

SpecLive == Init /\ [][NextLive]_vars /\ Fairness

-----------------------------------------------------------------------------
(* C15 *)

\* C15 (as claimed): once a contract is registered through POST /contracts,
\* a monitor for its address eventually runs in the indexer.
C15_DynamicRegistration ==
    \A req \in Requests :
        (\E row \in contractRows : row.Address = req.Address)
            ~> (\E m \in Monitors : contracts[m].Address = req.Address)

-----------------------------------------------------------------------------
(* C18 *)

\* Every log the chain may come to hold.
AllLogs == UNION { TransfersOf(b) : b \in 1..MaxHeight }

\* Log l is a decodable transfer of a monitored contract, at or above the
\* contract's StartBlock.
Expected(l) ==
    /\ l \in chainLogs
    /\ Decodable(l)
    /\ \E m \in Monitors : /\ contracts[m].Address = l.Address
                           /\ l.BlockNumber >= contracts[m].StartBlock

\* C18 (as claimed): when calls succeed and ticks keep firing, every
\* decodable transfer log of a contract from its StartBlock on is
\* eventually in the Event Store exactly once (stated for batch sizes of
\* at least 1).
C18_ResumableCompleteness ==
    \A l \in AllLogs :
        (batchSize >= 1 /\ Expected(l))
            ~> (Cardinality({t \in transactions :
                                 /\ t.TxHash = l.TxHash
                                 /\ t.LogIndex = l.Index}) = 1)

-----------------------------------------------------------------------------
(* Two contracts *)

\* A configuration with two tokens at different addresses.
TwoContracts ==
    <<ContractConfig("TokenA", "A", 0), ContractConfig("TokenB", "B", 0)>>

\* The chain stands at block 3: block 1 holds a transaction with a transfer
\* of each token, block 2 no transfer, block 3 a malformed and a decodable
\* transfer of TokenA.
InitTwo ==
    /\ chainHeight = 3
    /\ chainLogs = TransfersOf(1) \cup TransfersOf(3)
    /\ contracts = TwoContracts
    /\ batchSize \in BatchSizes
    /\ transactions = {}
    /\ blockProgress = {}
    /\ pc = [m \in Monitors |-> "select"]
    /\ lastBlock = Locals0(Monitors)
    /\ currentBlock = Locals0(Monitors)
    /\ fromBlock = Locals0(Monitors)
    /\ toBlock = Locals0(Monitors)
    /\ logs = [m \in Monitors |-> <<>>]
    /\ err = [m \in Monitors |-> "nil"]
    /\ fetched = [m \in Monitors |-> <<>>]
    /\ callFailed = [m \in Monitors |-> FALSE]
    /\ stopChan = "open"
    /\ mainPc = "wait"
    /\ contractRows = {}

\* The indexer with one monitor for each of two contracts.
SpecTwo == InitTwo /\ [][MonitorNext]_vars

-----------------------------------------------------------------------------
(* C16 *)

\* C16 (as claimed): an insert of one monitor is never rejected because of
\* a record another contract's monitor wrote: when a monitor's db.Create
\* runs, no stored record of another contract carries the log's key.
C16_InsertIsolation ==
    [][\A m \in Monitors :
          Inserted(m) =>
              ~\E t \in transactions :
                  /\ t.TxHash = Head(logs[m]).TxHash
                  /\ t.ContractAddress # contracts[m].Address
                  /\ transactions' = transactions]_vars

-----------------------------------------------------------------------------
(* C17 *)

\* Everything monitor m's goroutine holds.
Locals(m) ==
    <<pc[m], lastBlock[m], currentBlock[m], fromBlock[m], toBlock[m],
      logs[m], err[m], fetched[m], callFailed[m]>>

\* Any step of monitor m's goroutine.
MonitorStep(m) ==
    \/ Tick(m)
    \/ GetLastProcessedBlock(m)
    \/ BlockNumber(m)
    \/ BlockNumberFails(m)
    \/ FilterLogs(m)
    \/ FilterLogsFails(m)
    \/ DecodeFails(m)
    \/ BlockByNumber(m)
    \/ BlockByNumberFails(m)
    \/ Create(m)
    \/ CreateFails(m)
    \/ UpdateLastProcessedBlock(m)
    \/ UpdateFails(m)
    \/ NextBatch(m)
    \/ Return(m)

\* The process starts again: every goroutine is at its beginning and the
\* stores are as they were.
Restarted ==
    /\ \A m \in Monitors :
           Locals(m)' = <<"select", 0, 0, 0, 0, <<>>, "nil", <<>>, FALSE>>
    /\ UNCHANGED storeVars

\* C17: whatever the other monitors do or fail to do (a call that failed,
\* a call that has not returned), a monitor always has a step it can take;
\* a step of the running process changes the locals of one monitor at
\* most, and the checkpoint rows it adds or changes are rows of the
\* address of the monitor that took it.
C17_MonitorIndependence ==
    /\ [](\A n \in Monitors : ENABLED MonitorStep(n))
    /\ [][\/ Restarted
          \/ \E m \in Monitors :
                 /\ \A n \in Monitors \ {m} : Locals(n)' = Locals(n)
                 /\ \A row \in blockProgress' \ blockProgress :
                        row.Contract = contracts[m].Address
                 /\ \A row \in blockProgress \ blockProgress' :
                        row.Contract = contracts[m].Address]_vars

\* The monitor of TokenA waits for the answer to the first FilterLogs of
\* its first tick while the monitor of TokenB has finished a tick and
\* stored its checkpoint.
C17_Witness ==
    /\ Cardinality({contracts[m].Address : m \in Monitors}) = 2
    /\ \E m, n \in Monitors :
           /\ pc[m] = "fetch"
           /\ fetched[m] = <<>>
           /\ ~HasCheckpoint(contracts[m].Address)
           /\ pc[n] = "select"
           /\ HasCheckpoint(contracts[n].Address)
           /\ Checkpoint(contracts[n].Address) = chainHeight

-----------------------------------------------------------------------------
(* C19 *)

\* C19 (as claimed): a monitor starts a fetch either as the first of a tick
\* or after the checkpoint write of the batch before it, and then the new
\* batch lies above the one before: it begins after that batch's last
\* block and ends higher, so the checkpoint values written in a tick
\* increase strictly.
C19_AscendingChunks ==
    [][\A m \in Monitors :
          (pc'[m] = "fetch" /\ pc[m] # "fetch")
          => \/ pc[m] = "height"
             \/ /\ pc[m] = "next"
                /\ fromBlock'[m] > toBlock[m]
                /\ toBlock'[m] > toBlock[m]]_vars

-----------------------------------------------------------------------------
(* C20 *)

\* The first block monitor m has not processed.
FirstUnprocessed(m) == Max(LastProcessed(m) + 1, contracts[m].StartBlock)

\* client.BlockNumber has answered monitor m.
HeightKnown(m) ==
    /\ pc[m] = "height"
    /\ \/ pc'[m] = "fetch"
       \/ pc'[m] = "ret" /\ err'[m] = "nil"

\* C20 (as claimed): a tick that finds the first unprocessed block above
\* the chain height returns nil at once: no FilterLogs, no insert, the
\* tables unchanged.
C20_EmptyRangeTick ==
    [][\A m \in Monitors :
          (HeightKnown(m) /\ FirstUnprocessed(m) > chainHeight)
          => /\ pc'[m] = "ret"
             /\ err'[m] = "nil"
             /\ UNCHANGED storeVars]_vars

-----------------------------------------------------------------------------
(* C21 *)

\* The query of getLastProcessedBlock has failed in this step of monitor m.
ReadFailure(m) ==
    /\ pc[m] = "read"
    /\ callFailed'[m]

\* db.Save of updateLastProcessedBlock has failed in this step of monitor
\* m, for a reason other than the unique index.
WriteFailure(m) ==
    /\ pc[m] = "save"
    /\ ~callFailed[m]
    /\ callFailed'[m]

\* C21 (as claimed): a failed checkpoint read ends the tick before any
\* fetch and any write, and a failed checkpoint write ends the tick before
\* any later batch: after either, processContractEvents returns.
C21_StoreFailureAborts ==
    [][\A m \in Monitors :
          (ReadFailure(m) \/ WriteFailure(m))
          => /\ pc'[m] = "ret"
             /\ UNCHANGED storeVars]_vars

-----------------------------------------------------------------------------
(* C22 *)

\* Where a monitor waits: in its select, or for the answer to a call
\* (store read, chain height, log filter, block timestamp, insert,
\* checkpoint write).
SuspensionPoints ==
    {"select", "read", "height", "fetch", "event", "insert", "save"}

\* C22 (as claimed): wherever a monitor waits when the stop channel is
\* closed, it can leave through the stop case from there, without the
\* pending call having to return first.
C22_InterruptibleWaits ==
    \A m \in Monitors :
        (stopChan = "closed" /\ pc[m] \in SuspensionPoints)
            => ENABLED StopSignal(m)

-----------------------------------------------------------------------------
(* C23 *)

\* C23 (as claimed): a call of processContractEvents whose external calls
\* all return comes to its return after finitely many batches, whatever
\* the batch size. (One monitor runs under SpecLive, so the monitor that
\* returns is the one that entered.)
C23_TickTerminates ==
    (\E m \in Monitors : pc[m] = "read") ~> (\E m \in Monitors : pc[m] = "ret")

-----------------------------------------------------------------------------
(* C24 *)

\* close(i.stopChan) is executed in this step on a channel that is closed
\* already: the step in which the process panics.
ClosedAgain ==
    /\ stopChan = "closed"
    /\ mainPc \in {"wait", "close"}
    /\ mainPc' \in {"panic", "dead"}

\* C24 (as claimed): the stop channel is closed at most once; no close is
\* applied to the closed channel, by Start or by Stop.
C24_ClosedAtMostOnce == [][~ClosedAgain]_vars

-----------------------------------------------------------------------------
(* The same address configured twice *)

\* A configuration whose token list names one address in two entries;
\* loadContractsFromConfig appends every entry it reads.
SameContractTwice ==
    <<ContractConfig("TokenA", "A", 0), ContractConfig("TokenA", "A", 0)>>

\* The chain of InitTwo, and one monitor per entry of the list.
InitSame ==
    /\ chainHeight = 3
    /\ chainLogs = TransfersOf(1) \cup TransfersOf(3)
    /\ contracts = SameContractTwice
    /\ batchSize \in BatchSizes
    /\ transactions = {}
    /\ blockProgress = {}
    /\ pc = [m \in Monitors |-> "select"]
    /\ lastBlock = Locals0(Monitors)
    /\ currentBlock = Locals0(Monitors)
    /\ fromBlock = Locals0(Monitors)
    /\ toBlock = Locals0(Monitors)
    /\ logs = [m \in Monitors |-> <<>>]
    /\ err = [m \in Monitors |-> "nil"]
    /\ fetched = [m \in Monitors |-> <<>>]
    /\ callFailed = [m \in Monitors |-> FALSE]
    /\ stopChan = "open"
    /\ mainPc = "wait"
    /\ contractRows = {}

SpecSame == InitSame /\ [][MonitorNext]_vars

-----------------------------------------------------------------------------
(* C25 *)

\* Monitor m is inside a tick, after its checkpoint read and before its
\* return.
MidTick(m) == pc[m] \in {"height", "fetch", "event", "insert", "save", "next"}

\* C25 (as claimed): no checkpoint row of an address is written by one
\* monitor while another monitor of the same address is between the
\* checkpoint read and the return of a tick (stated for batch sizes of at
\* least 1).
C25_SingleOwner ==
    [][\A m, n \in Monitors :
          (/\ batchSize >= 1
           /\ m # n
           /\ contracts[m].Address = contracts[n].Address
           /\ MidTick(m))
          => ~(/\ pc[n] = "save"
               /\ pc'[n] = "next"
               /\ blockProgress' # blockProgress)]_vars

=============================================================================
